---- MODULE Spec2Model ----
(***************************************************************************)
(* AnomalyDetector of script.py: an exponential moving average baseline    *)
(* with a median-absolute-deviation dispersion and a modified z-score      *)
(* verdict.                                                                *)
(*                                                                         *)
(* Numbers.  Observations, the baseline and the residuals are integers.    *)
(* The smoothing factor and the threshold are rationals [num, den] with    *)
(* den > 0.  A call is explored only when its new baseline is again an     *)
(* integer (Exact), so every quantity below is the exact value of the      *)
(* expression in the source.  np.median of an even number of elements is   *)
(* the mean of the two middle ones, hence medians are kept doubled         *)
(* (Median2) and the stored mad is kept in quarters (mad = 4 * self.mad).  *)
(***************************************************************************)
EXTENDS Integers, Sequences, FiniteSets, TLC

VARIABLES detector, twin, fed, result, twin_result

vars == <<detector, twin, fed, result, twin_result>>

----------------------------------------------------------------------------
(* Bounds of the exploration *)

MaxCalls == 4
SpikeCalls == 41
WindowCalls == 32
MaxSwitches == 1
MaxValue == 25

(* Program constants *)

WINDOW == 30
ZNum == 1349
ZDen == 2000

Rat(n, d) == [num |-> n, den |-> d]

DefaultAlpha == Rat(1, 10)
DefaultThreshold == Rat(7, 2)

(* Construction parameters explored: __init__ accepts whatever it is given *)
Alphas == {Rat(1, 2), Rat(1, 4), Rat(1, 1), Rat(0, 1), Rat(3, 2)}
Thresholds == {DefaultThreshold, Rat(1, 1), Rat(0, 1), Rat(-1, 1)}
Values == {-1, 0, 2, 24}
SpikeValues == {0, 100}
TrendValues == 0..MaxValue

None == <<>>
Some(x) == <<x>>

----------------------------------------------------------------------------
(* Arithmetic helpers *)

Abs(x) == IF x < 0 THEN -x ELSE x

RatLeq(a, b) == a.num * b.den <= b.num * a.den

Sorted(s) == SortSeq(s, LAMBDA a, b: a < b)

(* 2 * np.median(s), s non-empty *)
Median2(s) ==
    LET t == Sorted(s)
        n == Len(s)
    IN  IF n % 2 = 1 THEN 2 * t[(n + 1) \div 2]
        ELSE t[n \div 2] + t[n \div 2 + 1]

(* residuals[-30:] *)
Last30(s) == IF Len(s) <= WINDOW THEN s ELSE SubSeq(s, Len(s) - WINDOW + 1, Len(s))

(* [abs(r - median) for r in s], doubled; median2 is the doubled centre *)
AbsDev2(s, median2) == [i \in 1..Len(s) |-> Abs(2 * s[i] - median2)]

----------------------------------------------------------------------------
(* AnomalyDetector *)

AnomalyDetector(ema_alpha, threshold) ==
    [ema_alpha |-> ema_alpha,
     current_ema |-> None,
     mad |-> None,
     threshold |-> threshold,
     residuals |-> <<>>]

(* alpha * value + (1 - alpha) * current_ema, times alpha.den *)
EmaNum(alpha, value, ema) == alpha.num * value + (alpha.den - alpha.num) * ema

Exact(alpha, value, ema) == EmaNum(alpha, value, ema) % alpha.den = 0

(* slip: the old baseline keeps its full weight, alpha * value + current_ema *)
Ema_Unweighted(alpha, value, ema) ==
    (alpha.num * value + alpha.den * ema) \div alpha.den

Ema(alpha, value, ema) == EmaNum(alpha, value, ema) \div alpha.den

Residual(value, ema) == value - ema

(* 4 * self.mad as recomputed from the residual history *)
Mad(residuals) ==
    IF Len(residuals) > WINDOW
    THEN LET median2 == Median2(residuals)
         IN  Median2(AbsDev2(Last30(residuals), median2))
    ELSE Median2(AbsDev2(residuals, Median2(residuals)))

(* slip: no zero-mad guard, the division by a zero mad yields an infinite  *)
(* score for a non-zero residual                                           *)
IsAnomaly_NoGuard(residual, mad4, threshold) ==
    IF mad4 = 0
    THEN residual # 0
    ELSE ZNum * 4 * Abs(residual) * threshold.den > ZDen * mad4 * threshold.num

(* slip: the comparison with the threshold is reversed *)
IsAnomaly_Below(residual, mad4, threshold) ==
    IF mad4 = 0
    THEN 0 < threshold.num
    ELSE ZNum * 4 * Abs(residual) * threshold.den < ZDen * mad4 * threshold.num

(* abs(modified_z_score) > threshold, mad4 = 4 * self.mad *)
IsAnomaly(residual, mad4, threshold) ==
    IF mad4 = 0
    THEN 0 > threshold.num
    ELSE ZNum * 4 * Abs(residual) * threshold.den > ZDen * mad4 * threshold.num

(* slip: no early return, the first call goes on to score its residual 0 *)
FirstUpdate_FallThrough(self, value) ==
    [self |-> [self EXCEPT !.current_ema = Some(value),
                           !.mad = Some(0),
                           !.residuals = Append(@, 0)],
     ret |-> 0 > self.threshold.num]

(* slip: the first call records no residual *)
FirstUpdate_NoAppend(self, value) ==
    [self |-> [self EXCEPT !.current_ema = Some(value),
                           !.mad = Some(0)],
     ret |-> FALSE]

FirstUpdate(self, value) ==
    [self |-> [self EXCEPT !.current_ema = Some(value),
                           !.mad = Some(0),
                           !.residuals = Append(@, 0)],
     ret |-> FALSE]

(* slip: the residual is taken against the baseline before its update *)
NextUpdate_StaleResidual(self, value) ==
    LET ema == (self.ema_alpha.num * value
                  + (self.ema_alpha.den - self.ema_alpha.num) * self.current_ema[1])
               \div self.ema_alpha.den
        residual == value - self.current_ema[1]
        residuals == Append(self.residuals, residual)
        mad4 == IF Len(residuals) > WINDOW
                THEN Median2(AbsDev2(Last30(residuals), Median2(residuals)))
                ELSE Median2(AbsDev2(residuals, Median2(residuals)))
    IN  [self |-> [self EXCEPT !.current_ema = Some(ema),
                               !.mad = Some(mad4),
                               !.residuals = residuals],
         ret |-> IF mad4 = 0
                 THEN 0 > self.threshold.num
                 ELSE ZNum * 4 * Abs(residual) * self.threshold.den
                          > ZDen * mad4 * self.threshold.num]

NextUpdate(self, value) ==
    LET ema == Ema(self.ema_alpha, value, self.current_ema[1])
        residual == Residual(value, ema)
        residuals == Append(self.residuals, residual)
        mad4 == Mad(residuals)
    IN  [self |-> [self EXCEPT !.current_ema = Some(ema),
                               !.mad = Some(mad4),
                               !.residuals = residuals],
         ret |-> IsAnomaly(residual, mad4, self.threshold)]

update(self, value) ==
    IF self.current_ema = None
    THEN FirstUpdate(self, value)
    ELSE NextUpdate(self, value)

(* the call computes an integer baseline *)
Representable(self, value) ==
    self.current_ema # None => Exact(self.ema_alpha, value, self.current_ema[1])

----------------------------------------------------------------------------
(* The stream: the same value is passed to both detectors *)

Feed(value) ==
    /\ Representable(detector, value)
    /\ Representable(twin, value)
    /\ detector' = update(detector, value).self
    /\ result' = update(detector, value).ret
    /\ twin' = update(twin, value).self
    /\ twin_result' = update(twin, value).ret
    /\ fed' = Append(fed, value)

Init ==
    /\ \E a \in Alphas : \E t1 \in Thresholds : \E t2 \in Thresholds :
         /\ detector = AnomalyDetector(a, t1)
         /\ twin = AnomalyDetector(a, t2)
    /\ fed = <<>>
    /\ result = FALSE
    /\ twin_result = FALSE

Update ==
    /\ Len(fed) < MaxCalls
    /\ \E value \in Values : Feed(value)

Next == Update

Spec == Init /\ [][Next]_vars

----------------------------------------------------------------------------
(* The default detector, detector = AnomalyDetector(), on a flat signal     *)
(* with spikes                                                              *)

InitDefault ==
    /\ detector = AnomalyDetector(DefaultAlpha, DefaultThreshold)
    /\ twin = AnomalyDetector(DefaultAlpha, DefaultThreshold)
    /\ fed = <<>>
    /\ result = FALSE
    /\ twin_result = FALSE

UpdateSpike ==
    /\ Len(fed) < SpikeCalls
    /\ \E value \in SpikeValues : Feed(value)

NextSpike == UpdateSpike

SpecSpike == InitDefault /\ [][NextSpike]_vars

----------------------------------------------------------------------------
(* The default detector on signals whose residual changes level at most     *)
(* MaxSwitches times: a flat stretch followed by ramps                      *)

Switches(s) == Cardinality({i \in 1..(Len(s) - 1) : s[i] # s[i + 1]})

UpdateTrend ==
    /\ Len(fed) < WindowCalls
    /\ \E value \in TrendValues :
         /\ Representable(detector, value)
         /\ Switches(update(detector, value).self.residuals) <= MaxSwitches
         /\ Feed(value)

NextWindow == UpdateTrend

SpecWindow == InitDefault /\ [][NextWindow]_vars

----------------------------------------------------------------------------
(* Vocabulary of the properties *)

calls == Len(fed)

Last(s) == s[Len(s)]

MinOf(s) == CHOOSE x \in {s[i] : i \in 1..Len(s)} : \A i \in 1..Len(s) : x <= s[i]
MaxOf(s) == CHOOSE x \in {s[i] : i \in 1..Len(s)} : \A i \in 1..Len(s) : x >= s[i]

ValidAlpha(a) == 0 < a.num /\ a.num <= a.den
ValidThreshold(t) == 0 < t.num

(* median(|r - m| for r in s) with m = median(s), in quarters *)
MadOf(s) == Median2(AbsDev2(s, Median2(s)))

FortyZerosThenSpike == [i \in 1..41 |-> IF i <= 40 THEN 0 ELSE 100]

----------------------------------------------------------------------------
(* C1 as stated: on the default detector, after 40 calls with 0 the call    *)
(* with 100 returns true.                                                   *)
C1_SpikeFlagged == fed = FortyZerosThenSpike => result = TRUE

(* C1 as amended: on the default detector, after 40 calls with 0 the call   *)
(* with 100 returns false: 29 of the last 30 residuals are 0, so the mad    *)
(* computed in that call is 0 and the zero-mad guard sets the score to 0.   *)
C1_SpikeNotFlagged ==
    fed = FortyZerosThenSpike =>
        /\ result = FALSE
        /\ detector.mad = Some(0)
        /\ Last(detector.residuals) = 90

C1_Witness == fed = FortyZerosThenSpike /\ detector.current_ema = Some(10)

(* C2: the call appending the k-th residual stores the mad of the whole     *)
(* history when k < 30 and the mad of the last 30 residuals alone when      *)
(* k >= 30.                                                                 *)
C2_WindowTransition ==
    calls >= 1 =>
        detector.mad = Some(IF Len(detector.residuals) < WINDOW
                            THEN MadOf(detector.residuals)
                            ELSE MadOf(Last30(detector.residuals)))

(* C3: once more than 30 residuals exist, the stored mad is the median of   *)
(* |r - m| over the last 30 residuals with m the median of those same 30    *)
(* residuals, never the median of the full history.                         *)
C3_WindowCentre ==
    Len(detector.residuals) > WINDOW =>
        LET window == Last30(detector.residuals)
            m2 == Median2(window)
        IN  detector.mad = Some(Median2(AbsDev2(window, m2)))

(* C4: the first update call returns false, sets ema to the value passed,   *)
(* sets mad to 0 and leaves the history <<0>>, whatever the threshold.      *)
C4_ColdStart ==
    calls = 1 =>
        /\ result = FALSE
        /\ detector.current_ema = Some(fed[1])
        /\ detector.mad = Some(0)
        /\ detector.residuals = <<0>>

C4_Witness ==
    /\ calls = 1
    /\ fed[1] # 0
    /\ detector.threshold.num < 0
    /\ detector.current_ema = Some(fed[1])

(* C5: whenever the mad computed in an update call is 0, that call returns  *)
(* false; calls that all pass the same value keep mad at 0 and never        *)
(* return true.                                                             *)
C5_ZeroDispersionGuard ==
    /\ (calls >= 1 /\ detector.mad = Some(0)) => result = FALSE
    /\ (calls >= 1 /\ \A i \in 1..calls : fed[i] = fed[1]) =>
           (detector.mad = Some(0) /\ result = FALSE)

(* C6: no update runs on a detector whose alpha is outside (0, 1] or whose  *)
(* threshold is not positive, construction having failed for those.         *)
C6_InvalidParameter ==
    calls >= 1 =>
        /\ ValidAlpha(detector.ema_alpha)
        /\ ValidThreshold(detector.threshold)

(* C7: the history is as long as the number of update calls, ema is unset   *)
(* exactly before the first call, and every call appends one residual       *)
(* leaving the earlier ones as they were.                                   *)
C7_HistoryLength ==
    /\ [](/\ Len(detector.residuals) = calls
          /\ (detector.current_ema = None <=> calls = 0))
    /\ [][/\ Len(detector.residuals') = Len(detector.residuals) + 1
          /\ SubSeq(detector.residuals', 1, Len(detector.residuals))
                 = detector.residuals]_vars

C7_Witness ==
    /\ calls >= 3
    /\ ValidAlpha(detector.ema_alpha)
    /\ ValidThreshold(detector.threshold)
    /\ result = TRUE
    /\ Len(detector.residuals) = calls

(* C8: with equal alpha and thresholds t_low <= t_high on the same input,   *)
(* a call flagged under t_high is flagged under t_low, and ema, mad and     *)
(* history of the two detectors are equal after every call.                 *)
C8_ThresholdMonotone ==
    /\ (RatLeq(detector.threshold, twin.threshold) /\ twin_result) => result
    /\ (RatLeq(twin.threshold, detector.threshold) /\ result) => twin_result
    /\ detector.current_ema = twin.current_ema
    /\ detector.mad = twin.mad
    /\ detector.residuals = twin.residuals

C8_Witness ==
    /\ calls >= 2
    /\ ValidAlpha(detector.ema_alpha)
    /\ ValidThreshold(detector.threshold)
    /\ RatLeq(detector.threshold, twin.threshold)
    /\ detector.threshold # twin.threshold
    /\ result = TRUE
    /\ twin_result = TRUE

(* C9: after the first call, with prior baseline e and input v, the new     *)
(* ema is alpha*v + (1-alpha)*e and the appended residual is v minus the    *)
(* new ema, that is (1-alpha)*(v - e).                                      *)
C9_ResidualAfterEma ==
    [][detector.current_ema # None =>
         LET a == detector.ema_alpha
             e == detector.current_ema[1]
         IN  /\ a.den * detector'.current_ema[1]
                    = a.num * Last(fed') + (a.den - a.num) * e
             /\ Last(detector'.residuals)
                    = Last(fed') - detector'.current_ema[1]
             /\ a.den * Last(detector'.residuals)
                    = (a.den - a.num) * (Last(fed') - e)]_vars

C9_Witness ==
    /\ calls >= 2
    /\ ValidAlpha(detector.ema_alpha)
    /\ Last(detector.residuals) # 0
    /\ Last(detector.residuals) = Last(fed) - detector.current_ema[1]

====
